---- MODULE Spec2Model ----
(***************************************************************************)
(* dirscan: a directory scanner that aggregates file counts and sizes by   *)
(* extension and by owner.                                                 *)
(*                                                                         *)
(* Two programs of the repository are modelled:                            *)
(*   - the sequential scanner (src/src/main.go): filepath.Walk with one    *)
(*     callback that folds every entry into fileTypes and users;           *)
(*     specification SpecSeq;                                              *)
(*   - the worker-pool scanner (src/unnamed/part_002, first program): a    *)
(*     walker goroutine, an unbuffered channel `files`, N workers, a       *)
(*     WaitGroup and a spinner; specifications SpecPool and FairPool.      *)
(***************************************************************************)
EXTENDS Integers, Sequences, FiniteSets, TLC

VARIABLES
    \* ---- sequential scanner (src/src/main.go) ----
    verboseEnabled,         \* flag -v
    pc,                     \* position of main: walk, sort, stop, report, done, panic
    nVisited,               \* callback invocations made by filepath.Walk so far
    totalFilesCount,
    totalCapacity,
    totalDirectoriesCount,
    fileTypes,              \* []fileType
    users,                  \* []userInfo
    openFiles,              \* files the classifier opened that are not closed
    \* ---- worker-pool scanner (src/unnamed/part_002) ----
    verbose,                \* flag -v
    debugOn,                \* flag -debug
    workers,                \* worker count after clamping
    mainPc,                 \* position of main
    spawned,                \* loop counter i of the worker-starting loop
    walkPc,                 \* position of the walker goroutine
    nWalked,                \* callback invocations made by the walker's Walk
    pending,                \* the path the walker is blocked sending on `files`
    closed,                 \* close(files) has happened
    wpc,                    \* position of each worker
    wsize,                  \* local `size` of each worker
    wtmp,                   \* register holding the value loaded from an accumulator
                            \* (0 again once stored back)
    wgCount,                \* sync.WaitGroup counter
    spinnerPc,              \* position of the spinner goroutine
    totalFileCount,
    poolCapacity,           \* totalCapacity of the worker-pool scanner
    totalDirectories,
    nSent,                  \* history: sends on `files` started by the walker
    nRecv,                  \* history: receives from `files` completed by workers
    sizeSum,                \* history: sum of the sizes returned by processFile
    wfailed,                \* history, per worker: processFile found the entry of the
                            \* path in hand vanished, or could not stat it
    lateSend,               \* history: a send on `files` happened after close
    \* ---- environment and pure functions ----
    dirExists,              \* the target directory exists
    arg,                    \* the input a pure function is applied to
    result                  \* what it returned

seqVars  == <<verboseEnabled, pc, nVisited, totalFilesCount, totalCapacity,
              totalDirectoriesCount, fileTypes, users, openFiles>>
poolVars == <<verbose, debugOn, workers, mainPc, spawned, walkPc, nWalked, pending,
              closed, wpc, wsize, wtmp, wgCount, spinnerPc, totalFileCount,
              poolCapacity, totalDirectories, nSent, nRecv, sizeSum, wfailed, lateSend>>
envVars  == <<dirExists, arg, result>>
vars     == <<seqVars, poolVars, envVars>>

(***************************************************************************)
(* Bounds of the model.                                                    *)
(***************************************************************************)
MaxEntries == 3     \* entries visited by the sequential walk
MaxTree    == 2     \* entries visited by the worker-pool walk
NumCPU     == 1     \* runtime.NumCPU()
MaxLines   == 11    \* lines of a file handed to the classifier
MaxObs     == 3     \* observations folded by the aggregation step

Sizes    == {1, 2}                  \* info.Size() of a non-directory entry
Uids     == {1000, 2001, 2002}      \* owner uids met in the tree
Mapped   == {1000}                  \* uids that user.LookupId resolves
Exts     == {"", ".go"}             \* filepath.Ext(path)
\* file contents: a sequence of lines, a line a sequence of character codes
Contents == { <<>>, << <<65>> >>, << <<7>>, <<65>> >> }

\* ============================ sequential scanner ============================

\* user.LookupId: the (name, ok) pair for a uid
LookupId(uid) ==
    IF uid \in Mapped THEN [ok |-> TRUE, Username |-> "alice"]
    ELSE [ok |-> FALSE, Username |-> ""]

\* the owner record used after the lookup: on failure &user.User{Uid: ...},
\* whose Username field is the zero value
OwnerOf(uid) ==
    IF LookupId(uid).ok THEN [Uid |-> uid, Username |-> LookupId(uid).Username]
    ELSE [Uid |-> uid, Username |-> ""]

\* one line holds a character outside [32,126]
LineNonPrintable(line) == \E k \in 1..Len(line) : line[k] < 32 \/ line[k] > 126

\* the sampling loop: i < 10 && fileScanner.Scan(); isBinary is declared before
\* the loop and never reset; extension is assigned once per examined line
RECURSIVE SampleLoop(_, _, _, _)
SampleLoop(lines, i, isBinary, extension) ==
    IF i >= 10 \/ i >= Len(lines) THEN extension
    ELSE LET b == isBinary \/ LineNonPrintable(lines[i + 1])
         IN  SampleLoop(lines, i + 1, b,
                        IF b THEN "no_extension_binary" ELSE "no_extension_text")

\* mutant: isBinary is reset for every line, so that the last examined line
\* alone decides the label
Classify_LastLine(lines) ==
    IF Len(lines) = 0 THEN ""
    ELSE IF LineNonPrintable(lines[IF Len(lines) < 10 THEN Len(lines) ELSE 10])
    THEN "no_extension_binary"
    ELSE "no_extension_text"

\* the label the callback gives an opened extension-less file (lines 265-285);
\* extension holds filepath.Ext(path) = "" when the loop starts
Classify(lines) == SampleLoop(lines, 0, FALSE, "")

\* entries the walk hands to the callback: (info, err) and what the callback
\* reads from the entry.  err # nil comes with info = nil (lstat failed) or
\* with the directory's info (reading the directory failed).
NoFile == [info |-> "nil", err |-> TRUE, ext |-> "", canOpen |-> FALSE,
           content |-> <<>>, size |-> 0, uid |-> 1000]
DirEntries ==
    { [NoFile EXCEPT !.info = "dir", !.err = e] : e \in BOOLEAN }
FileEntries ==
    { [info |-> k, err |-> FALSE, ext |-> x, canOpen |-> o, content |-> c,
       size |-> s, uid |-> u] :
        k \in {"file", "symlink"}, x \in Exts, o \in BOOLEAN, c \in Contents,
        s \in Sizes, u \in Uids }
Entries ==
    {NoFile} \cup DirEntries
    \cup { e \in FileEntries :
             /\ (e.ext # "" => e.canOpen /\ e.content = <<>>)
             /\ (~e.canOpen => e.content = <<>>) }

IsDir(e) == e.info = "dir"

\* mutant: the search looks at the element at i only
FindExtension_HeadOnly(list, k, i) ==
    IF i > Len(list) THEN 0
    ELSE IF list[i].extension = k THEN i
    ELSE 0

\* index of the first element, from i on, whose extension is k; 0 when none
RECURSIVE FindExtension(_, _, _)
FindExtension(list, k, i) ==
    IF i > Len(list) THEN 0
    ELSE IF list[i].extension = k THEN i
    ELSE FindExtension(list, k, i + 1)

\* mutant: the search for a name never finds it
FindName_NeverFound(list, k, i) == 0

\* index of the first element, from i on, whose name is k; 0 when none
RECURSIVE FindName(_, _, _)
FindName(list, k, i) ==
    IF i > Len(list) THEN 0
    ELSE IF list[i].name = k THEN i
    ELSE FindName(list, k, i + 1)

\* mutant: the per-user entry found, its count is incremented but the size is
\* not added
AddFileTypeUser_NoSize(us, name, size) ==
    LET j == FindName(us, name, 1) IN
    IF j # 0
    THEN [us EXCEPT ![j] = [@ EXCEPT !.count = @ + 1]]
    ELSE Append(us, [name |-> name, size |-> size, count |-> 1])

\* lines 340-358: the per-user entry inside one fileType
AddFileTypeUser(us, name, size) ==
    LET j == FindName(us, name, 1) IN
    IF j # 0
    THEN [us EXCEPT ![j] = [@ EXCEPT !.size = @ + size, !.count = @ + 1]]
    ELSE Append(us, [name |-> name, size |-> size, count |-> 1])

\* mutant: a new fileType starts with count 0
AddFileType_NewCountZero(fts, extension, name, size) ==
    LET i == FindExtension(fts, extension, 1) IN
    IF i # 0
    THEN [fts EXCEPT ![i] = [@ EXCEPT !.size = @ + size, !.count = @ + 1,
                                      !.users = AddFileTypeUser(@, name, size)]]
    ELSE Append(fts, [extension |-> extension, size |-> size, count |-> 0,
                      users |-> << [name |-> name, size |-> size, count |-> 1] >>])

\* lines 324-376: fold one observation into fileTypes
AddFileType(fts, extension, name, size) ==
    LET i == FindExtension(fts, extension, 1) IN
    IF i # 0
    THEN [fts EXCEPT ![i] = [@ EXCEPT !.size = @ + size, !.count = @ + 1,
                                      !.users = AddFileTypeUser(@, name, size)]]
    ELSE Append(fts, [extension |-> extension, size |-> size, count |-> 1,
                      users |-> << [name |-> name, size |-> size, count |-> 1] >>])

\* mutant: the per-extension entry found, its size is added but its count is
\* not incremented
AddUserFileType_NoCount(fs, extension, size) ==
    LET j == FindExtension(fs, extension, 1) IN
    IF j # 0
    THEN [fs EXCEPT ![j] = [@ EXCEPT !.size = @ + size]]
    ELSE Append(fs, [extension |-> extension, size |-> size, count |-> 1])

\* lines 394-413: the per-extension entry inside one userInfo
AddUserFileType(fs, extension, size) ==
    LET j == FindExtension(fs, extension, 1) IN
    IF j # 0
    THEN [fs EXCEPT ![j] = [@ EXCEPT !.size = @ + size, !.count = @ + 1]]
    ELSE Append(fs, [extension |-> extension, size |-> size, count |-> 1])

\* mutant: an observation of a user that has no group yet is dropped
AddUser_NoAppend(uss, extension, name, size) ==
    LET i == FindName(uss, name, 1) IN
    IF i # 0
    THEN [uss EXCEPT ![i] = [@ EXCEPT !.size = @ + size, !.count = @ + 1,
                                      !.filetypes = AddUserFileType(@, extension, size)]]
    ELSE uss

\* lines 378-433: fold one observation into users
AddUser(uss, extension, name, size) ==
    LET i == FindName(uss, name, 1) IN
    IF i # 0
    THEN [uss EXCEPT ![i] = [@ EXCEPT !.size = @ + size, !.count = @ + 1,
                                      !.filetypes = AddUserFileType(@, extension, size)]]
    ELSE Append(uss, [name |-> name, size |-> size, count |-> 1,
                      filetypes |-> << [extension |-> extension, size |-> size,
                                        count |-> 1] >>])

\* the extension label of a non-directory entry (lines 235-302)
LabelOf(e) ==
    IF e.ext # "" THEN e.ext
    ELSE IF ~e.canOpen THEN "no_extension_unknown_format"
    ELSE Classify(e.content)

\* the callback returns early after a failed open (lines 243-247)
OpenFailReturns(e, v) == e.ext = "" /\ ~e.canOpen /\ ~v

\* the callback returns early after a failed owner lookup (lines 312-318)
LookupFailReturns(e, v) == ~LookupId(e.uid).ok /\ ~v

\* the callback returns early on a walk error (lines 218-223)
WalkErrReturns(e, v) == e.err /\ ~v

\* main.go does not test the target directory: when it does not exist, Walk
\* calls the callback once, with info = nil and the error of os.Lstat, and returns
RootMissing == ~dirExists

\* os.Open(path) succeeds in the callback on e (lines 238-239)
OpensFile(e) == ~IsDir(e) /\ e.ext = "" /\ e.canOpen

\* mutant: the file is closed by a call at the end of the callback, which the
\* early return after a failed owner lookup does not reach
ClosedAtReturn_NoDefer(e, v) == OpensFile(e) /\ ~LookupFailReturns(e, v)

\* data.Close() runs when the callback returns: the deferred call is
\* registered right after the sampling loop (lines 287-300), and no return
\* lies between os.Open and the defer statement
ClosedAtReturn(e, v) == OpensFile(e)

\* The filepath.Walk callback (lines 217-441) on entry e.
CallbackOn(e) ==
    /\ pc = "walk"
    /\ nVisited < MaxEntries
    /\ RootMissing => nVisited = 0 /\ e = NoFile
    /\ nVisited' = nVisited + 1
    /\ UNCHANGED <<verboseEnabled, poolVars, envVars>>
    /\ IF WalkErrReturns(e, verboseEnabled)
       THEN UNCHANGED <<pc, totalFilesCount, totalCapacity, totalDirectoriesCount,
                        fileTypes, users, openFiles>>
       ELSE IF e.info = "nil"
       THEN \* info.IsDir() on a nil FileInfo: the process panics
            /\ pc' = "panic"
            /\ UNCHANGED <<totalFilesCount, totalCapacity, totalDirectoriesCount,
                           fileTypes, users, openFiles>>
       ELSE IF IsDir(e)
       THEN /\ totalDirectoriesCount' = totalDirectoriesCount + 1
            /\ UNCHANGED <<pc, totalFilesCount, totalCapacity, fileTypes, users,
                           openFiles>>
       ELSE /\ totalFilesCount' = totalFilesCount + 1
            /\ openFiles' = openFiles
                    + (IF OpensFile(e) THEN 1 ELSE 0)
                    - (IF ClosedAtReturn(e, verboseEnabled) THEN 1 ELSE 0)
            /\ UNCHANGED <<pc, totalDirectoriesCount>>
            /\ IF OpenFailReturns(e, verboseEnabled)
               THEN UNCHANGED <<totalCapacity, fileTypes, users>>
               ELSE /\ totalCapacity' = totalCapacity + e.size
                    /\ IF LookupFailReturns(e, verboseEnabled)
                       THEN UNCHANGED <<fileTypes, users>>
                       ELSE /\ fileTypes' = AddFileType(fileTypes, LabelOf(e),
                                                        OwnerOf(e.uid).Username, e.size)
                            /\ users' = AddUser(users, LabelOf(e),
                                                OwnerOf(e.uid).Username, e.size)

Callback == \E e \in Entries : CallbackOn(e)

\* filepath.Walk returns (line 441); the root has been handed to the callback
WalkReturn ==
    /\ pc = "walk"
    /\ nVisited >= 1
    /\ pc' = "sort"
    /\ UNCHANGED <<verboseEnabled, nVisited, totalFilesCount, totalCapacity,
                   totalDirectoriesCount, fileTypes, users, openFiles,
                   poolVars, envVars>>

\* mutant: the comparison of an ascending sort
Less_Ascending(a, b) == a.size < b.size

\* bySize.Less / bySizeUser.Less (lines 68, 73)
Less(a, b) == a.size > b.size

\* the permutations of 1..n
Perms(n) == { p \in [1..n -> 1..n] : \A i, j \in 1..n : i # j => p[i] # p[j] }

\* mutant: Swap overwrites a[j] with a[i] instead of exchanging them, so that
\* the sorted list holds its largest element at every place
Sorted_SwapOverwrites(list) ==
    { [i \in 1..Len(list) |-> list[p[1]]] : p \in
        { q \in Perms(Len(list)) :
            \A i, j \in 1..Len(list) : i < j => ~Less(list[q[j]], list[q[i]]) } }

\* sort.Sort is not stable: any arrangement in which no element is Less than
\* an earlier one (lines 443-445)
Sorted(list) ==
    { [i \in 1..Len(list) |-> list[p[i]]] : p \in
        { q \in Perms(Len(list)) :
            \A i, j \in 1..Len(list) : i < j => ~Less(list[q[j]], list[q[i]]) } }

Sort ==
    /\ pc = "sort"
    /\ fileTypes' \in Sorted(fileTypes)
    /\ users' \in Sorted(users)
    /\ pc' = "stop"
    /\ UNCHANGED <<verboseEnabled, nVisited, totalFilesCount, totalCapacity,
                   totalDirectoriesCount, openFiles,
                   poolVars, envVars>>

\* stop <- true, received by the spinner (lines 447, 94)
StopSpinner ==
    /\ pc = "stop"
    /\ pc' = "report"
    /\ UNCHANGED <<verboseEnabled, nVisited, totalFilesCount, totalCapacity,
                   totalDirectoriesCount, fileTypes, users, openFiles,
                   poolVars, envVars>>

\* the summary (lines 449-478)
Report ==
    /\ pc = "report"
    /\ pc' = "done"
    /\ UNCHANGED <<verboseEnabled, nVisited, totalFilesCount, totalCapacity,
                   totalDirectoriesCount, fileTypes, users, openFiles,
                   poolVars, envVars>>

\* no path: the value of `pending` while the walker is not sending
NoPath == [kind |-> "none", size |-> 0]

\* the worker-pool scanner is not running
PoolIdle ==
    /\ verbose = FALSE /\ debugOn = FALSE /\ workers = 0 /\ mainPc = "off"
    /\ spawned = 0 /\ walkPc = "off" /\ nWalked = 0 /\ pending = NoPath
    /\ closed = FALSE /\ wpc = <<>> /\  wsize = <<>> /\ wtmp = <<>>
    /\ wgCount = 0 /\ spinnerPc = "off" /\ totalFileCount = 0 /\ poolCapacity = 0
    /\ totalDirectories = 0 /\ nSent = 0 /\ nRecv = 0 /\ sizeSum = 0
    /\ wfailed = <<>> /\ lateSend = FALSE

\* no pure function is being applied
NoCall == arg = <<>> /\ result = <<>>

InitSeq ==
    /\ verboseEnabled \in BOOLEAN
    /\ pc = "walk"
    /\ nVisited = 0
    /\ totalFilesCount = 0
    /\ totalCapacity = 0
    /\ totalDirectoriesCount = 0
    /\ fileTypes = <<>>
    /\ users = <<>>
    /\ openFiles = 0
    /\ PoolIdle
    /\ dirExists \in BOOLEAN
    /\ NoCall

NextSeq == Callback \/ WalkReturn \/ Sort \/ StopSpinner \/ Report

SpecSeq == InitSeq /\ [][NextSeq]_vars

\* ============================ worker-pool scanner ============================

\* the sequential scanner is not running
SeqIdle ==
    /\ verboseEnabled = FALSE /\ pc = "off" /\ nVisited = 0 /\ totalFilesCount = 0
    /\ totalCapacity = 0 /\ totalDirectoriesCount = 0 /\ fileTypes = <<>>
    /\ users = <<>> /\ openFiles = 0

\* values of flag -w tried
Requested == (0 - 1) .. (2 * NumCPU + 1)

\* the default of flag -w (line 46)
DefaultWorkers == NumCPU * 2

\* mutant: the test workers < 1 is missing
Clamp_NoLowerBound(w) == IF w > NumCPU * 2 THEN NumCPU * 2 ELSE w

\* lines 112-118: at least 1, at most twice the number of CPUs
Clamp(w) ==
    LET w1 == IF w < 1 THEN 1 ELSE w
    IN  IF w1 > NumCPU * 2 THEN NumCPU * 2 ELSE w1

\* the workers of the pool: those whose locals exist, 1..workers once the count
\* is clamped
Workers == DOMAIN wpc

\* entries the walker's Walk hands to its callback.  kind "walkerr" is a call
\* with err # nil; the other non-directory kinds say what processFile will find:
\* a regular file, a symbolic link, an entry that has vanished, a stat error.
PoolEntries ==
    { [kind |-> k, size |-> 0] : k \in {"walkerr", "dir", "symlink", "gone", "staterr"} }
    \cup { [kind |-> "file", size |-> s] : s \in Sizes }

\* processFile (lines 246-278): the (size, error) pair it returns
ProcessFile(file) ==
    IF file.kind = "symlink" THEN [size |-> 0, err |-> FALSE]
    ELSE IF file.kind = "gone" THEN [size |-> 0, err |-> FALSE]
    ELSE IF file.kind = "staterr" THEN [size |-> 0, err |-> TRUE]
    ELSE [size |-> file.size, err |-> FALSE]

\* processFile found the entry vanished (lines 262-266) or could not stat it
\* (lines 268-271)
NotObserved(file) == file.kind \in {"gone", "staterr"}

\* the walker's callback (lines 153-170) on entry e; a send on the unbuffered
\* channel blocks the walker until a worker receives
WalkerCallbackOn(e) ==
    /\ walkPc = "walk"
    /\ nWalked < MaxTree
    /\ nWalked' = nWalked + 1
    /\ IF e.kind = "walkerr"
       THEN UNCHANGED <<walkPc, pending, nSent, lateSend, totalDirectories>>
       ELSE IF e.kind # "dir"
       THEN /\ pending' = e
            /\ walkPc' = "send"
            /\ nSent' = nSent + 1
            /\ lateSend' = (lateSend \/ closed)
            /\ UNCHANGED totalDirectories
       ELSE /\ totalDirectories' = totalDirectories + 1
            /\ UNCHANGED <<walkPc, pending, nSent, lateSend>>
    /\ UNCHANGED <<verbose, debugOn, workers, mainPc, spawned, closed, wpc,
                   wsize, wtmp, wgCount, spinnerPc, totalFileCount, poolCapacity,
                   nRecv, sizeSum, wfailed, seqVars, envVars>>

WalkerCallback == \E e \in PoolEntries : WalkerCallbackOn(e)

\* mutant: Walk returns an error, so the walker returns without close(files)
WalkFailed_Always == TRUE

\* the error filepath.Walk returns: the callback returns nil on every path
\* (lines 158, 169), so Walk returns nil
WalkFailed == FALSE

\* Walk has returned (lines 171-177): return without closing on an error,
\* close(files) otherwise
WalkerFinish ==
    /\ walkPc = "walk"
    /\ walkPc' = "done"
    /\ closed' = (closed \/ ~WalkFailed)
    /\ UNCHANGED <<verbose, debugOn, workers, mainPc, spawned, nWalked, pending,
                   wpc, wsize, wtmp, wgCount, spinnerPc, totalFileCount,
                   poolCapacity, totalDirectories, nSent, nRecv, sizeSum, wfailed, lateSend,
                   seqVars, envVars>>

\* the clamping of the requested worker count (lines 111-119); the workers'
\* locals exist from here on
MainClamp ==
    /\ mainPc = "clamp"
    /\ workers' = Clamp(workers)
    /\ wpc' = [w \in 1..Clamp(workers) |-> "idle"]
    /\ wsize' = [w \in 1..Clamp(workers) |-> 0]
    /\ wtmp' = [w \in 1..Clamp(workers) |-> 0]
    /\ wfailed' = [w \in 1..Clamp(workers) |-> FALSE]
    /\ mainPc' = "stat"
    /\ UNCHANGED <<verbose, debugOn, spawned, walkPc, nWalked, pending, closed,
                   wgCount, spinnerPc, totalFileCount, poolCapacity,
                   totalDirectories, nSent, nRecv, sizeSum, lateSend, seqVars,
                   envVars>>

\* os.Stat(dir) (lines 121-125): main returns when the directory does not
\* exist; otherwise the walker goroutine is started (line 148)
MainCheckDir ==
    /\ mainPc = "stat"
    /\ IF dirExists
       THEN mainPc' = "add" /\ walkPc' = "walk"
       ELSE mainPc' = "exited" /\ UNCHANGED walkPc
    /\ UNCHANGED <<verbose, debugOn, workers, spawned, nWalked, pending, closed,
                   wpc, wsize, wtmp, wgCount, spinnerPc, totalFileCount,
                   poolCapacity, totalDirectories, nSent, nRecv, sizeSum, wfailed,
                   lateSend, seqVars, envVars>>

\* wg.Add(workers) (line 182)
MainAdd ==
    /\ mainPc = "add"
    /\ wgCount' = wgCount + workers
    /\ mainPc' = "spin"
    /\ UNCHANGED <<verbose, debugOn, workers, spawned, walkPc, nWalked, pending,
                   closed, wpc, wsize, wtmp, spinnerPc, totalFileCount,
                   poolCapacity, totalDirectories, nSent, nRecv, sizeSum, wfailed, lateSend,
                   seqVars, envVars>>

\* the spinner runs only without -v and -debug (lines 194, 218)
SpinnerWanted == ~verbose /\ ~debugOn

\* go spinner(stop) (lines 194-196)
MainSpinner ==
    /\ mainPc = "spin"
    /\ spinnerPc' = IF SpinnerWanted THEN "select" ELSE spinnerPc
    /\ mainPc' = "spawn"
    /\ UNCHANGED <<verbose, debugOn, workers, spawned, walkPc, nWalked, pending,
                   closed, wpc, wsize, wtmp, wgCount, totalFileCount,
                   poolCapacity, totalDirectories, nSent, nRecv, sizeSum, wfailed, lateSend,
                   seqVars, envVars>>

\* one iteration of the loop that starts the workers (lines 199-212)
MainSpawn ==
    /\ mainPc = "spawn"
    /\ IF spawned < workers
       THEN /\ spawned' = spawned + 1
            /\ wpc' = [wpc EXCEPT ![spawned + 1] = "recv"]
            /\ UNCHANGED mainPc
       ELSE /\ mainPc' = "wait"
            /\ UNCHANGED <<spawned, wpc>>
    /\ UNCHANGED <<verbose, debugOn, workers, walkPc, nWalked, pending, closed,
                   wsize, wtmp, wgCount, spinnerPc, totalFileCount,
                   poolCapacity, totalDirectories, nSent, nRecv, sizeSum, wfailed, lateSend,
                   seqVars, envVars>>

\* mutant: main does not wait for the workers
WaitReturns_NoBarrier == TRUE

\* wg.Wait() returns when the counter is zero (line 214)
WaitReturns == wgCount = 0

MainWait ==
    /\ mainPc = "wait"
    /\ WaitReturns
    /\ mainPc' = "stop"
    /\ UNCHANGED <<verbose, debugOn, workers, spawned, walkPc, nWalked, pending,
                   closed, wpc, wsize, wtmp, wgCount, spinnerPc,
                   totalFileCount, poolCapacity, totalDirectories, nSent, nRecv,
                   sizeSum, wfailed, lateSend, seqVars, envVars>>

\* stop <- struct{}{} (lines 218-220) received by the spinner's select
\* (line 301); no send when the spinner was not started
MainStop ==
    /\ mainPc = "stop"
    /\ IF SpinnerWanted
       THEN /\ spinnerPc = "select"
            /\ spinnerPc' = "stopped"
       ELSE UNCHANGED spinnerPc
    /\ mainPc' = "report"
    /\ UNCHANGED <<verbose, debugOn, workers, spawned, walkPc, nWalked, pending,
                   closed, wpc, wsize, wtmp, wgCount, totalFileCount,
                   poolCapacity, totalDirectories, nSent, nRecv, sizeSum, wfailed, lateSend,
                   seqVars, envVars>>

\* the final report (lines 223-242)
MainReport ==
    /\ mainPc = "report"
    /\ mainPc' = "done"
    /\ UNCHANGED <<verbose, debugOn, workers, spawned, walkPc, nWalked, pending,
                   closed, wpc, wsize, wtmp, wgCount, spinnerPc,
                   totalFileCount, poolCapacity, totalDirectories, nSent, nRecv,
                   sizeSum, wfailed, lateSend, seqVars, envVars>>

\* the spinner's select takes the default branch when nothing is sent on stop,
\* prints a frame and sleeps (lines 304-307)
SpinnerDefault ==
    /\ spinnerPc = "select"
    /\ ~(mainPc = "stop" /\ SpinnerWanted)
    /\ spinnerPc' = "sleep"
    /\ UNCHANGED <<verbose, debugOn, workers, mainPc, spawned, walkPc, nWalked,
                   pending, closed, wpc, wsize, wtmp, wgCount,
                   totalFileCount, poolCapacity, totalDirectories, nSent, nRecv,
                   sizeSum, wfailed, lateSend, seqVars, envVars>>

\* time.Sleep returns and the spinner loops (lines 299, 307)
SpinnerWake ==
    /\ spinnerPc = "sleep"
    /\ spinnerPc' = "select"
    /\ UNCHANGED <<verbose, debugOn, workers, mainPc, spawned, walkPc, nWalked,
                   pending, closed, wpc, wsize, wtmp, wgCount,
                   totalFileCount, poolCapacity, totalDirectories, nSent, nRecv,
                   sizeSum, wfailed, lateSend, seqVars, envVars>>

\* mutant: the receive does not take the path off the channel, so the walker
\* stays in its send and the path can be received again
WorkerReceive_KeepsPath(w) ==
    /\ wpc[w] = "recv"
    /\ walkPc = "send"
    /\ wsize' = [wsize EXCEPT ![w] = ProcessFile(pending).size]
    /\ sizeSum' = sizeSum + ProcessFile(pending).size
    /\ wfailed' = [wfailed EXCEPT ![w] = NotObserved(pending)]
    /\ nRecv' = nRecv + 1
    /\ wpc' = [wpc EXCEPT ![w] = "countRead"]
    /\ UNCHANGED <<verbose, debugOn, workers, mainPc, spawned, nWalked, closed,
                   wtmp, wgCount, spinnerPc, totalFileCount, poolCapacity,
                   totalDirectories, nSent, lateSend, pending, walkPc, seqVars,
                   envVars>>

\* `for file := range files` receives the path the walker is sending, and
\* size, _ := processFile(file) (lines 205-206)
WorkerReceive(w) ==
    /\ wpc[w] = "recv"
    /\ walkPc = "send"
    /\ wsize' = [wsize EXCEPT ![w] = ProcessFile(pending).size]
    /\ sizeSum' = sizeSum + ProcessFile(pending).size
    /\ wfailed' = [wfailed EXCEPT ![w] = NotObserved(pending)]
    /\ nRecv' = nRecv + 1
    /\ pending' = NoPath
    /\ walkPc' = "walk"
    /\ wpc' = [wpc EXCEPT ![w] = "countRead"]
    /\ UNCHANGED <<verbose, debugOn, workers, mainPc, spawned, nWalked, closed,
                   wtmp, wgCount, spinnerPc, totalFileCount, poolCapacity,
                   totalDirectories, nSent, lateSend, seqVars, envVars>>

\* totalFileCount++ (line 207) is a load and a store with no lock around them
WorkerCountRead(w) ==
    /\ wpc[w] = "countRead"
    /\ wtmp' = [wtmp EXCEPT ![w] = totalFileCount]
    /\ wpc' = [wpc EXCEPT ![w] = "countWrite"]
    /\ UNCHANGED <<verbose, debugOn, workers, mainPc, spawned, walkPc, nWalked,
                   pending, closed, wsize, wgCount, spinnerPc,
                   totalFileCount, poolCapacity, totalDirectories, nSent, nRecv,
                   sizeSum, wfailed, lateSend, seqVars, envVars>>

WorkerCountWrite(w) ==
    /\ wpc[w] = "countWrite"
    /\ totalFileCount' = wtmp[w] + 1
    /\ wtmp' = [wtmp EXCEPT ![w] = 0]
    /\ wpc' = [wpc EXCEPT ![w] = "capRead"]
    /\ UNCHANGED <<verbose, debugOn, workers, mainPc, spawned, walkPc, nWalked,
                   pending, closed, wsize, wgCount, spinnerPc,
                   poolCapacity, totalDirectories, nSent, nRecv, sizeSum, wfailed, lateSend,
                   seqVars, envVars>>

\* totalCapacity += size (line 208), likewise a load and a store
WorkerCapRead(w) ==
    /\ wpc[w] = "capRead"
    /\ wtmp' = [wtmp EXCEPT ![w] = poolCapacity]
    /\ wpc' = [wpc EXCEPT ![w] = "capWrite"]
    /\ UNCHANGED <<verbose, debugOn, workers, mainPc, spawned, walkPc, nWalked,
                   pending, closed, wsize, wgCount, spinnerPc,
                   totalFileCount, poolCapacity, totalDirectories, nSent, nRecv,
                   sizeSum, wfailed, lateSend, seqVars, envVars>>

WorkerCapWrite(w) ==
    /\ wpc[w] = "capWrite"
    /\ poolCapacity' = wtmp[w] + wsize[w]
    /\ wtmp' = [wtmp EXCEPT ![w] = 0]
    /\ wsize' = [wsize EXCEPT ![w] = 0]
    /\ wfailed' = [wfailed EXCEPT ![w] = FALSE]
    /\ wpc' = [wpc EXCEPT ![w] = "recv"]
    /\ UNCHANGED <<verbose, debugOn, workers, mainPc, spawned, walkPc, nWalked,
                   pending, closed, wgCount, spinnerPc,
                   totalFileCount, totalDirectories, nSent, nRecv, sizeSum,
                   lateSend, seqVars, envVars>>

\* mutant: a worker leaves its loop as soon as nothing is waiting to be received
RangeEnds_WhenEmpty == walkPc # "send"

\* the range loop ends when `files` is closed and nothing is left to receive
RangeEnds == closed /\ walkPc # "send"

\* the loop has ended: wg.Done() (line 210)
WorkerExit(w) ==
    /\ wpc[w] = "recv"
    /\ RangeEnds
    /\ wgCount' = wgCount - 1
    /\ wpc' = [wpc EXCEPT ![w] = "done"]
    /\ UNCHANGED <<verbose, debugOn, workers, mainPc, spawned, walkPc, nWalked,
                   pending, closed, wsize, wtmp, spinnerPc, totalFileCount,
                   poolCapacity, totalDirectories, nSent, nRecv, sizeSum, wfailed, lateSend,
                   seqVars, envVars>>

WorkerStep(w) ==
    \/ WorkerReceive(w)
    \/ WorkerCountRead(w)
    \/ WorkerCountWrite(w)
    \/ WorkerCapRead(w)
    \/ WorkerCapWrite(w)
    \/ WorkerExit(w)

WalkerStep  == WalkerCallback \/ WalkerFinish
MainStep    == MainClamp \/ MainCheckDir \/ MainAdd \/ MainSpinner \/ MainSpawn \/ MainWait \/ MainStop \/ MainReport
SpinnerStep == SpinnerDefault \/ SpinnerWake

InitPool ==
    /\ SeqIdle
    /\ verbose \in BOOLEAN
    /\ debugOn \in BOOLEAN
    /\ workers \in Requested
    /\ mainPc = "clamp"
    /\ spawned = 0
    /\ walkPc = "off"
    /\ nWalked = 0
    /\ pending = NoPath
    /\ closed = FALSE
    /\ wpc = <<>>
    /\ wsize = <<>>
    /\ wtmp = <<>>
    /\ wgCount = 0
    /\ spinnerPc = "off"
    /\ totalFileCount = 0
    /\ poolCapacity = 0
    /\ totalDirectories = 0
    /\ nSent = 0
    /\ nRecv = 0
    /\ sizeSum = 0
    /\ wfailed = <<>>
    /\ lateSend = FALSE
    /\ dirExists \in BOOLEAN
    /\ NoCall

NextPool ==
    \/ MainClamp
    \/ MainCheckDir
    \/ WalkerCallback
    \/ WalkerFinish
    \/ MainAdd
    \/ MainSpinner
    \/ MainSpawn
    \/ MainWait
    \/ MainStop
    \/ MainReport
    \/ SpinnerDefault
    \/ SpinnerWake
    \/ \E w \in Workers : WorkerReceive(w)
    \/ \E w \in Workers : WorkerCountRead(w)
    \/ \E w \in Workers : WorkerCountWrite(w)
    \/ \E w \in Workers : WorkerCapRead(w)
    \/ \E w \in Workers : WorkerCapWrite(w)
    \/ \E w \in Workers : WorkerExit(w)

SpecPool == InitPool /\ [][NextPool]_vars

\* the runs with one and with two workers
InitFair == InitPool /\ workers \in {1, 2}

\* every goroutine that can take a step eventually takes one
FairPool ==
    /\ InitFair
    /\ [][NextPool]_vars
    /\ WF_vars(WalkerStep)
    /\ WF_vars(MainStep)
    /\ WF_vars(SpinnerStep)
    /\ \A w \in 1..(2 * NumCPU) : WF_vars(wpc # <<>> /\ w \in Workers /\ WorkerStep(w))


\* ================== the classifier and the aggregation alone ==================

\* lines a file can hold: one of printable characters only (both ends of the
\* range), the others with a character just outside the range
CleanLine  == <<32, 126>>
DirtyLines == { <<65, 31>>, <<127>> }

\* contents of an opened extension-less file: up to MaxLines lines
FileContents ==
    UNION { { [i \in 1..n |-> IF i \in S THEN d ELSE CleanLine] :
                S \in SUBSET (1..n), d \in DirtyLines } : n \in 0..MaxLines }

\* the callback classifies the file whose content is arg
ClassifyCall ==
    /\ result = <<>>
    /\ result' = <<Classify(arg)>>
    /\ UNCHANGED <<seqVars, poolVars, dirExists, arg>>

InitClassify ==
    /\ SeqIdle /\ PoolIdle /\ dirExists = TRUE
    /\ arg \in FileContents
    /\ result = <<>>

SpecClassify == InitClassify /\ [][ClassifyCall]_vars

\* what the aggregation passes read of a file: extension label, owner name, size
Observations ==
    [extension : {".go", "no_extension_text"}, name : {"alice", ""}, size : Sizes]

\* sequences of up to MaxObs observations
ObservationLists == UNION { [1..n -> Observations] : n \in 0..MaxObs }

\* both aggregation passes of the callback (lines 324-433) over the first n
\* observations of obs, starting from the empty lists
RECURSIVE Aggregate(_, _)
Aggregate(obs, n) ==
    IF n = 0 THEN [fileTypes |-> <<>>, users |-> <<>>]
    ELSE LET prev == Aggregate(obs, n - 1)
             o    == obs[n]
         IN  [fileTypes |-> AddFileType(prev.fileTypes, o.extension, o.name, o.size),
              users     |-> AddUser(prev.users, o.extension, o.name, o.size)]

\* obs in the order p
Reordered(obs, p) == [i \in 1..Len(obs) |-> obs[p[i]]]

\* the walk meets the observations arg.obs in that order, and in the order arg.p
AggregateCall ==
    /\ result = <<>>
    /\ result' = << Aggregate(arg.obs, Len(arg.obs)),
                    Aggregate(Reordered(arg.obs, arg.p), Len(arg.obs)) >>
    /\ UNCHANGED <<seqVars, poolVars, dirExists, arg>>

InitAgg ==
    /\ SeqIdle /\ PoolIdle /\ dirExists = TRUE
    /\ \E obs \in ObservationLists : \E p \in Perms(Len(obs)) :
          arg = [obs |-> obs, p |-> p]
    /\ result = <<>>

SpecAgg == InitAgg /\ [][AggregateCall]_vars

\* ============================ sizes and their rendering ============================

\* A size is written in base 1024: the sequence of its digits, least
\* significant first, without a leading zero digit; <<>> is 0.  An int64 is a
\* sign and a magnitude.
Unit      == 1024     \* const unit = 1024 (lines 79, 281 of part_002)
MaxDigits == 7        \* base-1024 digits of a 64-bit size
Digits    == {0, 1, 7, 512, 1023}

\* the magnitudes of the model: sizes below 2^63 (top digit of seven below 8)
Magnitudes ==
    UNION { { d \in [1..n -> Digits] :
                /\ n > 0 => d[n] # 0
                /\ n = MaxDigits => d[n] < 8 } : n \in 0..MaxDigits }

\* a small natural number as a size
RECURSIVE ToDigits(_)
ToDigits(n) == IF n = 0 THEN <<>> ELSE <<n % Unit>> \o ToDigits(n \div Unit)

\* number of binary digits of a small natural number
RECURSIVE BitLen(_)
BitLen(n) == IF n = 0 THEN 0 ELSE 1 + BitLen(n \div 2)

RECURSIVE Pow2(_)
Pow2(n) == IF n = 0 THEN 1 ELSE 2 * Pow2(n - 1)

\* add 1 to the digit at position i, carrying upwards
RECURSIVE Increment(_, _)
Increment(d, i) ==
    IF i > Len(d) THEN Append(d, 1)
    ELSE IF d[i] + 1 < Unit THEN [d EXCEPT ![i] = @ + 1]
    ELSE Increment([d EXCEPT ![i] = 0], i + 1)

\* float64(size): the magnitude rounded to 53 significant bits, ties to even.
\* A size below 2^63 has at most 63 bits, so only the lowest digit loses bits.
ToFloat64(d) ==
    LET bits == IF d = <<>> THEN 0 ELSE 10 * (Len(d) - 1) + BitLen(d[Len(d)]) IN
    IF bits <= 53 THEN d
    ELSE LET shift == bits - 53
             low   == d[1] % Pow2(shift)
             half  == Pow2(shift - 1)
             kept  == IF shift < 10 THEN (d[1] \div Pow2(shift)) % 2 ELSE d[2] % 2
             down  == [d EXCEPT ![1] = @ - low]
         IN  IF low > half \/ (low = half /\ kept = 1)
             THEN IF down[1] + Pow2(shift) < Unit
                  THEN [down EXCEPT ![1] = @ + Pow2(shift)]
                  ELSE Increment([down EXCEPT ![1] = 0], 2)
             ELSE down

\* math.Log(x) of a float64 x that lies within 2^-50 (relative) below a power
\* 1024^e, e >= 5, is the same float64 as math.Log(1024^e)
NearNextPower(x) ==
    /\ Len(x) \in {5, 6}
    /\ \A i \in (Len(x) - 4)..Len(x) : x[i] = Unit - 1

\* int64(math.Log(float64(size)) / math.Log(float64(unit))) for size >= 1024
LogExp(d) ==
    LET x == ToFloat64(d) IN
    IF NearNextPower(x) THEN Len(x) ELSE Len(x) - 1

\* floor(10 * L / 1024^j) for L the value of the lowest j digits of d
RECURSIVE TenthsCarry(_, _)
TenthsCarry(d, j) ==
    IF j = 0 THEN 0 ELSE (10 * d[j] + TenthsCarry(d, j - 1)) \div Unit

\* 10 * L / 1024^j is not a whole number
RECURSIVE TenthsInexact(_, _)
TenthsInexact(d, j) ==
    IF j = 0 THEN FALSE
    ELSE (10 * d[j] + TenthsCarry(d, j - 1)) % Unit # 0 \/ TenthsInexact(d, j - 1)

\* "%.1f" of size / 1024^e, in tenths, for 1 <= e and size < 1024^(e+1): the
\* quotient rounded to one decimal, ties to even (the rounding of the float64
\* division itself is left out)
Tenths(d, e) ==
    LET whole == IF e + 1 <= Len(d) THEN d[e + 1] ELSE 0
        t     == 10 * whole + TenthsCarry(d, e)
        m     == (10 * d[e] + TenthsCarry(d, e - 1)) % Unit
        lower == TenthsInexact(d, e - 1)
    IN  IF m > 512 \/ (m = 512 /\ (lower \/ t % 2 = 1)) THEN t + 1 ELSE t

Suffixes == <<"K", "M", "G", "T", "P", "E">>

\* what a formatter prints
PlainBytes(neg, d) == [form |-> "%d B", neg |-> neg, digits |-> d]
Scaled(tenths, c)  == [form |-> "%.1f %ciB", tenths |-> tenths, suffix |-> c]

\* humanReadableSize (src/src/main.go lines 76-86); the size is an int64
humanReadableSize(size) ==
    IF size.neg \/ Len(size.digits) <= 1 THEN PlainBytes(size.neg, size.digits)
    ELSE LET exp == LogExp(size.digits) IN
         IF exp < 7 THEN Scaled(Tenths(size.digits, exp), Suffixes[exp])
         ELSE [form |-> "%.1f %cB", tenths |-> 0, suffix |-> "Z"]

\* the loop of formatSize: exp counts the divisions of n = size / unit by unit
RECURSIVE FormatLoop(_, _)
FormatLoop(n, exp) ==
    IF Len(n) <= 1 THEN exp ELSE FormatLoop(Tail(n), exp + 1)

\* formatSize (part_002 lines 281-292); the size is a uint64
formatSize(d) ==
    IF Len(d) <= 1 THEN PlainBytes(FALSE, d)
    ELSE LET exp == FormatLoop(Tail(d), 0) IN
         Scaled(Tenths(d, exp + 1), Suffixes[exp + 1])

\* int64 values
NonNeg(d)  == [neg |-> FALSE, digits |-> d]
MinInt64   == [neg |-> TRUE,  digits |-> <<0, 0, 0, 0, 0, 0, 8>>]
MaxInt64   == NonNeg(<<1023, 1023, 1023, 1023, 1023, 1023, 7>>)
MaxUint64  == <<1023, 1023, 1023, 1023, 1023, 1023, 15>>

\* int64(average) for a float64 that no int64 represents: the result of the
\* conversion depends on the implementation (the most negative value on amd64;
\* saturation, and 0 for NaN, on arm64)
ConvertNaN == {MinInt64, NonNeg(<<>>), MaxInt64}
ConvertInf == {MinInt64, MaxInt64}

\* averageFileSize (src/src/main.go lines 109-113): the renderings the call can
\* return.  fileSize / fileCount is a float64 division: NaN for 0 / 0, +Inf for
\* a positive size over 0; otherwise the quotient rounded to two decimals
\* (math.Round, half away from zero) and truncated by int64()
averageFileSize(fileSize, fileCount) ==
    IF fileCount = 0
    THEN { humanReadableSize(v) :
             v \in IF fileSize = 0 THEN ConvertNaN ELSE ConvertInf }
    ELSE { humanReadableSize(NonNeg(ToDigits(
             ((200 * fileSize + fileCount) \div (2 * fileCount)) \div 100))) }

\* the average the worker-pool report prints (part_002 lines 233-242)
ReportAverage(capacity, count) ==
    LET avgFileSize == IF count > 0 THEN capacity \div count ELSE 0
    IN  formatSize(ToDigits(avgFileSize))

\* arguments of the average computations
AvgSizes  == {0, 5, 399, 2048, 1048576}
AvgCounts == {0, 1, 2, 200}

\* the calls of the model
FormatCalls ==
    [fn : {"humanReadableSize"}, size : { NonNeg(d) : d \in Magnitudes } \cup {MinInt64}]
    \cup [fn : {"formatSize"}, size : Magnitudes \cup {MaxUint64}]
    \cup [fn : {"averageFileSize", "avgFileSize"}, size : AvgSizes, count : AvgCounts]

HumanReadableSizeCall ==
    /\ arg.fn = "humanReadableSize" /\ result = <<>>
    /\ result' = <<humanReadableSize(arg.size)>>
    /\ UNCHANGED <<seqVars, poolVars, dirExists, arg>>

FormatSizeCall ==
    /\ arg.fn = "formatSize" /\ result = <<>>
    /\ result' = <<formatSize(arg.size)>>
    /\ UNCHANGED <<seqVars, poolVars, dirExists, arg>>

AverageFileSizeCall ==
    /\ arg.fn = "averageFileSize" /\ result = <<>>
    /\ \E r \in averageFileSize(arg.size, arg.count) : result' = <<r>>
    /\ UNCHANGED <<seqVars, poolVars, dirExists, arg>>

ReportAverageCall ==
    /\ arg.fn = "avgFileSize" /\ result = <<>>
    /\ result' = <<ReportAverage(arg.size, arg.count)>>
    /\ UNCHANGED <<seqVars, poolVars, dirExists, arg>>

InitFormat ==
    /\ SeqIdle /\ PoolIdle /\ dirExists = TRUE
    /\ arg \in FormatCalls
    /\ result = <<>>

NextFormat ==
    \/ HumanReadableSizeCall
    \/ FormatSizeCall
    \/ AverageFileSizeCall
    \/ ReportAverageCall

SpecFormat == InitFormat /\ [][NextFormat]_vars

\* ========================= the scanner and the signals =========================

\* The sequential scanner together with its signal goroutine (src/src/main.go
\* lines 126-127, 175-183).  arg holds the content of sigCh (capacity 1), result
\* what the signal goroutine has done: <<>> while it waits on sigCh,
\* <<"received", sig>> after sig := <-sigCh, <<"exited", sig>> after it printed
\* its message and called os.Exit(0).
Signals == {"SIGINT", "SIGTERM"}

\* the trees walked here: directories and files a.go of one owner
SignalTree ==
    { e \in Entries : ~e.err /\ (e.info = "file" => e.ext = ".go" /\ e.uid = 1000
                                                    /\ e.size = 1)
                             /\ e.info # "symlink" }

\* mutant: os.Exit(0) in the signal goroutine does not stop main
ProcessRunning_AfterExit == pc \notin {"done", "panic"}

\* the process has not ended: os.Exit(0) was not called (line 181) and main
\* has neither returned nor panicked
ProcessRunning ==
    /\ pc \notin {"done", "panic"}
    /\ ~(result # <<>> /\ result[1] = "exited")

\* a step of main while the process runs
MainRuns ==
    /\ ProcessRunning
    /\ \/ \E e \in SignalTree : CallbackOn(e)
       \/ WalkReturn
       \/ Sort
       \/ StopSpinner
       \/ Report

\* the runtime puts a signal into sigCh; it is dropped when sigCh is full
SignalDelivered ==
    /\ ProcessRunning
    /\ arg = <<>>
    /\ \E sig \in Signals : arg' = <<sig>>
    /\ UNCHANGED <<seqVars, poolVars, dirExists, result>>

\* sig := <-sigCh (line 176)
SignalReceived ==
    /\ ProcessRunning
    /\ result = <<>>
    /\ arg # <<>>
    /\ result' = <<"received", arg[1]>>
    /\ arg' = <<>>
    /\ UNCHANGED <<seqVars, poolVars, dirExists>>

\* the three lines of the message, then os.Exit(0) (lines 177-181)
SignalExit ==
    /\ ProcessRunning
    /\ result # <<>> /\ result[1] = "received"
    /\ result' = <<"exited", result[2]>>
    /\ UNCHANGED <<seqVars, poolVars, dirExists, arg>>

SignalGoroutine == SignalReceived \/ SignalExit

InitSignal == InitSeq

NextSignal ==
    \/ MainRuns
    \/ SignalDelivered
    \/ SignalReceived
    \/ SignalExit

SpecSignal == InitSignal /\ [][NextSignal]_vars

\* main and the signal goroutine each take a step when they can
FairSignal ==
    /\ InitSignal
    /\ [][NextSignal]_vars
    /\ WF_vars(MainRuns)
    /\ WF_vars(SignalGoroutine)

\* =================== the worker-pool walker with the skip rule ===================

\* The walker of the second program of src/unnamed/part_002 (lines 423-450) on
\* a small file system.  A walked entry is the path text Walk hands to the
\* callback together with the file it names.  arg is the list of entries Walk
\* has still to visit, result the list of entries sent on files.
FileSystem ==
    [file : {"/"}, kind : {"dir"}, names : {<<"home", "proc", "run">>}]
    \cup [file : {"/home"}, kind : {"dir"}, names : {<<"a", "gone">>}]
    \cup [file : {"/home/a", "/proc/1/stat", "/run/lock"}, kind : {"file"},
          names : {<<>>}]
    \cup [file : {"/home/gone"}, kind : {"lstatfails"}, names : {<<>>}]
    \cup [file : {"/proc"}, kind : {"dir"}, names : {<<"1">>}]
    \cup [file : {"/proc/1"}, kind : {"dir"}, names : {<<"stat">>}]
    \cup [file : {"/run"}, kind : {"dir"}, names : {<<"lock">>}]

Lookup(file) == CHOOSE f \in FileSystem : f.file = file

\* values of flag -d: the text given and the directory it names (the working
\* directory is "/")
ScanRoots ==
    { [path |-> "/", file |-> "/"], [path |-> "/home", file |-> "/home"],
      [path |-> "/proc", file |-> "/proc"], [path |-> "/proc/", file |-> "/proc"],
      [path |-> "proc", file |-> "/proc"], [path |-> "/run", file |-> "/run"],
      [path |-> "run", file |-> "/run"] }

\* filepath.Join(path, name), as Walk forms the path of a child
Join(path, name) ==
    IF path \in {"/", "/proc/"} THEN path \o name ELSE path \o "/" \o name

\* the entries of the directory entry e, in the order of its names
ChildEntries(e) ==
    [i \in DOMAIN Lookup(e.file).names |->
        [path |-> Join(e.path, Lookup(e.file).names[i]),
         file |-> Join(e.file, Lookup(e.file).names[i])]]

\* the skip rule of the callback (lines 426-431)
SkipDir(e) ==
    Lookup(e.file).kind = "dir" /\ (e.path = "/proc" \/ e.path = "/run")

\* the Walk callback of the second program on the next entry (lines 425-442)
SkipWalkerCallback ==
    /\ walkPc = "walk"
    /\ pending = NoPath
    /\ arg # <<>>
    /\ nWalked' = nWalked + 1
    /\ LET e == Head(arg) IN
       IF Lookup(e.file).kind = "lstatfails"
       THEN \* info is nil and err is not tested: info.IsDir() panics
            /\ walkPc' = "panic"
            /\ UNCHANGED <<arg, result, pending, totalDirectories>>
       ELSE IF SkipDir(e)
       THEN /\ arg' = Tail(arg)
            /\ UNCHANGED <<walkPc, result, pending, totalDirectories>>
       ELSE IF Lookup(e.file).kind # "dir"
       THEN /\ pending' = [kind |-> "file", size |-> 1]
            /\ result' = Append(result, e)
            /\ arg' = Tail(arg)
            /\ UNCHANGED <<walkPc, totalDirectories>>
       ELSE /\ totalDirectories' = totalDirectories + 1
            /\ arg' = ChildEntries(e) \o Tail(arg)
            /\ UNCHANGED <<walkPc, result, pending>>
    /\ UNCHANGED <<verbose, debugOn, workers, mainPc, spawned, closed, wpc, wsize,
                   wtmp, wgCount, spinnerPc, totalFileCount, poolCapacity, nSent,
                   nRecv, sizeSum, wfailed, lateSend, seqVars, dirExists>>

\* Walk has returned nil: close(files) (line 450)
SkipWalkerFinish ==
    /\ walkPc = "walk"
    /\ pending = NoPath
    /\ arg = <<>>
    /\ closed' = TRUE
    /\ walkPc' = "done"
    /\ UNCHANGED <<verbose, debugOn, workers, mainPc, spawned, nWalked, pending,
                   wpc, wsize, wtmp, wgCount, spinnerPc, totalFileCount,
                   poolCapacity, totalDirectories, nSent, nRecv, sizeSum, wfailed,
                   lateSend, seqVars, envVars>>

\* a worker takes the path from files and counts it (lines 476-480); the two
\* updates are taken as one step here
SkipWorkerReceive ==
    /\ walkPc # "panic"
    /\ pending # NoPath
    /\ pending' = NoPath
    /\ totalFileCount' = totalFileCount + 1
    /\ poolCapacity' = poolCapacity + pending.size
    /\ UNCHANGED <<verbose, debugOn, workers, mainPc, spawned, walkPc, nWalked,
                   closed, wpc, wsize, wtmp, wgCount, spinnerPc, totalDirectories,
                   nSent, nRecv, sizeSum, wfailed, lateSend, seqVars, envVars>>

InitSkip ==
    /\ SeqIdle
    /\ verbose \in BOOLEAN /\ debugOn \in BOOLEAN
    /\ workers = 0 /\ mainPc = "off" /\ spawned = 0
    /\ walkPc = "walk" /\ nWalked = 0 /\ pending = NoPath /\ closed = FALSE
    /\ wpc = <<>> /\ wsize = <<>> /\ wtmp = <<>> /\ wgCount = 0
    /\ spinnerPc = "off" /\ totalFileCount = 0 /\ poolCapacity = 0
    /\ totalDirectories = 0 /\ nSent = 0 /\ nRecv = 0 /\ sizeSum = 0
    /\ wfailed = <<>> /\ lateSend = FALSE
    /\ dirExists = TRUE
    /\ \E root \in ScanRoots : arg = <<root>>
    /\ result = <<>>

NextSkip ==
    \/ SkipWalkerCallback
    \/ SkipWalkerFinish
    \/ SkipWorkerReceive

SpecSkip == InitSkip /\ [][NextSkip]_vars

\* ============================== the summary alone ==============================

\* The report section of main.go (lines 449-478) step by step.  arg holds the
\* flags -f, -u, -v and the two sorted lists; result holds the position of main
\* in the section and the lines written so far.  The line of a group or of a
\* nested entry carries fileCount, the second argument of its averageFileSize
\* call.

\* the nested lines of one user: its file types (lines 458-460)
UserFileTypeLines(fs) ==
    [j \in 1..Len(fs) |-> [line |-> "user file type", key |-> fs[j].extension,
                       fileCount |-> fs[j].count]]

\* the nested lines of one file type: its users (lines 474-476)
FileTypeUserLines(us) ==
    [j \in 1..Len(us) |-> [line |-> "file type user", key |-> us[j].name,
                       fileCount |-> us[j].count]]

\* the loop of lines 455-462 from element i on
RECURSIVE UserLines(_, _, _)
UserLines(us, v, i) ==
    IF i > Len(us) THEN <<>>
    ELSE << [line |-> "user", key |-> us[i].name, fileCount |-> us[i].count] >>
            \o (IF v THEN UserFileTypeLines(us[i].filetypes) ELSE <<>>)
            \o UserLines(us, v, i + 1)

\* the loop of lines 471-478 from element i on
RECURSIVE FileTypeLines(_, _, _)
FileTypeLines(fts, v, i) ==
    IF i > Len(fts) THEN <<>>
    ELSE << [line |-> "file type", key |-> fts[i].extension,
             fileCount |-> fts[i].count] >>
            \o (IF v THEN FileTypeUserLines(fts[i].users) ELSE <<>>)
            \o FileTypeLines(fts, v, i + 1)

\* lines 449-451: the totals and the scanning time
PrintTotals ==
    /\ result.pc = "totals"
    /\ result' = [pc  |-> "users",
                  out |-> result.out \o << [line |-> "totals", key |-> ""],
                                           [line |-> "time", key |-> ""] >>]
    /\ UNCHANGED <<seqVars, poolVars, dirExists, arg>>

\* lines 453-464: the listing by user, unless -f
PrintByUser ==
    /\ result.pc = "users"
    /\ result' = [pc  |-> "mode",
                  out |-> IF ~arg.fileTypesOnly
                          THEN result.out
                                  \o << [line |-> "by user", key |-> ""] >>
                                  \o UserLines(arg.users, arg.verboseEnabled, 1)
                          ELSE result.out]
    /\ UNCHANGED <<seqVars, poolVars, dirExists, arg>>

\* lines 465-467: with -u the process exits here
ExitIfUserInfoOnly ==
    /\ result.pc = "mode"
    /\ result' = [result EXCEPT !.pc = IF arg.userInfoOnly THEN "exit" ELSE "types"]
    /\ UNCHANGED <<seqVars, poolVars, dirExists, arg>>

\* lines 469-478: the listing by file type
PrintByFileType ==
    /\ result.pc = "types"
    /\ result' = [pc  |-> "end",
                  out |-> result.out
                             \o << [line |-> "by file type", key |-> ""] >>
                             \o FileTypeLines(arg.fileTypes, arg.verboseEnabled, 1)]
    /\ UNCHANGED <<seqVars, poolVars, dirExists, arg>>

InitReport ==
    /\ SeqIdle /\ PoolIdle /\ dirExists = TRUE
    /\ \E obs \in ObservationLists :
          \E f \in Sorted(Aggregate(obs, Len(obs)).fileTypes) :
             \E u \in Sorted(Aggregate(obs, Len(obs)).users) :
                \E fo, uo, v \in BOOLEAN :
                   arg = [fileTypesOnly |-> fo, userInfoOnly |-> uo,
                          verboseEnabled |-> v, fileTypes |-> f, users |-> u]
    /\ result = [pc |-> "totals", out |-> <<>>]

NextReport == PrintTotals \/ PrintByUser \/ ExitIfUserInfoOnly \/ PrintByFileType

SpecReport == InitReport /\ [][NextReport]_vars

\* ====================== two runs of the sequential scanner ======================

\* The walk of main.go run twice over one tree, once with -v and once without:
\* both runs are handed the same entries with the same outcomes.  arg counts the
\* entries handed out; result is the pair of the runs' states (with -v, without).

\* the state of a run before the walk (lines 192-199)
RunStart ==
    [pc |-> "walk", totalFilesCount |-> 0, totalCapacity |-> 0,
     totalDirectoriesCount |-> 0, fileTypes |-> <<>>, users |-> <<>>]

\* the state of a run after the callback (lines 217-441) on entry e in state
\* st, with verboseEnabled = v; a run that has panicked takes no step
CallbackResult(st, e, v) ==
    IF st.pc # "walk" THEN st
    ELSE IF WalkErrReturns(e, v) THEN st
    ELSE IF e.info = "nil" THEN [st EXCEPT !.pc = "panic"]
    ELSE IF IsDir(e)
    THEN [st EXCEPT !.totalDirectoriesCount = @ + 1]
    ELSE IF OpenFailReturns(e, v)
    THEN [st EXCEPT !.totalFilesCount = @ + 1]
    ELSE IF LookupFailReturns(e, v)
    THEN [st EXCEPT !.totalFilesCount = @ + 1, !.totalCapacity = @ + e.size]
    ELSE [st EXCEPT !.totalFilesCount = @ + 1,
                    !.totalCapacity = @ + e.size,
                    !.fileTypes = AddFileType(@, LabelOf(e),
                                              OwnerOf(e.uid).Username, e.size),
                    !.users = AddUser(@, LabelOf(e),
                                      OwnerOf(e.uid).Username, e.size)]

\* the walk hands the next entry to the callback of both runs
BothCallbackOn(e) ==
    /\ arg < MaxTree
    /\ arg' = arg + 1
    /\ result' = << CallbackResult(result[1], e, TRUE),
                    CallbackResult(result[2], e, FALSE) >>
    /\ UNCHANGED <<seqVars, poolVars, dirExists>>

BothCallback == \E e \in Entries : BothCallbackOn(e)

InitTwoRuns ==
    /\ SeqIdle /\ PoolIdle /\ dirExists = TRUE
    /\ arg = 0
    /\ result = <<RunStart, RunStart>>

NextTwoRuns == BothCallback

SpecTwoRuns == InitTwoRuns /\ [][NextTwoRuns]_vars

\* ================================ the claims ================================


\* the sum of the count fields of a list of groups, from index i on
RECURSIVE SumCount(_, _)
SumCount(list, i) ==
    IF i > Len(list) THEN 0 ELSE list[i].count + SumCount(list, i + 1)

\* the sum of the size fields of a list of groups, from index i on
RECURSIVE SumSize(_, _)
SumSize(list, i) ==
    IF i > Len(list) THEN 0 ELSE list[i].size + SumSize(list, i + 1)

\* the extension group of the files that could not be opened
IsUnknownFormat(r) == r.extension = "no_extension_unknown_format"

\* filepath.Walk has returned in the sequential scanner
WalkCompleted == pc \in {"sort", "stop", "report", "done"}

\* C1: when the walk has completed, the counts of the extension groups add up
\* to totalFilesCount
C1_ExtensionCountsAddUp ==
    WalkCompleted => SumCount(fileTypes, 1) = totalFilesCount

\* C2: when the walk has completed, the sizes of the extension groups add up
\* to totalCapacity
C2_ExtensionSizesAddUp ==
    WalkCompleted => SumSize(fileTypes, 1) = totalCapacity

\* C3: when the walk has completed, the counts of the user groups add up to
\* totalFilesCount and their sizes to totalCapacity
C3_UserTotalsAddUp ==
    WalkCompleted =>
        /\ SumCount(users, 1) = totalFilesCount
        /\ SumSize(users, 1) = totalCapacity

\* the (extension, user, size, count) entries recorded inside the extension groups
ExtensionSide ==
    UNION { { <<fileTypes[i].extension, fileTypes[i].users[j].name,
                fileTypes[i].users[j].size, fileTypes[i].users[j].count>> :
              j \in DOMAIN fileTypes[i].users } : i \in DOMAIN fileTypes }

\* the (extension, user, size, count) entries recorded inside the user groups
UserSide ==
    UNION { { <<users[i].filetypes[j].extension, users[i].name,
                users[i].filetypes[j].size, users[i].filetypes[j].count>> :
              j \in DOMAIN users[i].filetypes } : i \in DOMAIN users }

\* C4: at every callback boundary, an (extension, user) entry exists on the
\* extension side exactly when it exists on the user side, with the same size
\* and count
C4_CrossConsistent ==
    /\ \A x \in ExtensionSide : \E y \in UserSide : x = y
    /\ \A y \in UserSide : \E x \in ExtensionSide : x = y

\* C4 witness: two extension groups, one of them shared by two users, and two
\* user groups, one of them holding two extensions
C4_Witness ==
    /\ Len(fileTypes) >= 2
    /\ \E i \in DOMAIN fileTypes : Len(fileTypes[i].users) >= 2
    /\ Len(users) >= 2
    /\ \E i \in DOMAIN users : Len(users[i].filetypes) >= 2

\* main of the worker-pool scanner is past wg.Wait()
PastWait == mainPc \in {"stop", "report", "done"}

\* C5: the totals read after wg.Wait() are the number of paths sent on `files`
\* and the sum of the sizes processFile returned, whatever the worker count and
\* the interleaving
C5_TotalsOrderIndependent ==
    PastWait => totalFileCount = nSent /\ poolCapacity = sizeSum

\* C6: no two workers are at the same time between the load and the store of
\* the same accumulator
C6_UpdatesSerialized ==
    \A v, w \in Workers :
        v # w => /\ ~(wpc[v] = "countWrite" /\ wpc[w] = "countWrite")
                 /\ ~(wpc[v] = "capWrite" /\ wpc[w] = "capWrite")

\* C7: main is past wg.Wait() only when every worker has called wg.Done() and
\* the walker has finished
C7_ReportAfterBarrier ==
    PastWait => /\ \A w \in Workers : wpc[w] = "done"
                /\ walkPc = "done"

\* C7 witness: the report is reached by a run of two workers that received paths
\* and counted a directory
C7_Witness ==
    /\ mainPc = "report"
    /\ workers >= 2
    /\ nRecv >= 1
    /\ totalDirectories >= 1

\* C8: no send on `files` happens after the close, the close happens only when
\* Walk has returned, and a worker has left its loop only when `files` is closed
\* and every path sent has been received
C8_CloseAfterWalk ==
    /\ ~lateSend
    /\ closed => walkPc = "done"
    /\ \A w \in Workers : wpc[w] = "done" => closed /\ nRecv = nSent

\* C8 witness: a worker has left its loop after paths were sent
C8_Witness ==
    /\ \E w \in Workers : wpc[w] = "done"
    /\ nSent >= 2

\* C9: under fair scheduling every run reaches the final report, with `files`
\* closed, every worker done and the stop signal received by the spinner
C9_ReportReached ==
    dirExists =>
    <>( /\ mainPc = "done"
        /\ closed
        /\ \A w \in Workers : wpc[w] = "done"
        /\ SpinnerWanted => spinnerPc = "stopped" )

\* C9 witness: the report is reached after the spinner received the stop signal
\* and two workers drained the channel
C9_Witness ==
    /\ mainPc = "done"
    /\ spinnerPc = "stopped"
    /\ workers = 2
    /\ nRecv >= 1

\* C10: the callback on a symbolic link changes neither the counts nor the
\* capacity nor the groups
C10_SymlinkNotCounted ==
    [][ \A e \in Entries :
          (e.info = "symlink" /\ CallbackOn(e)) =>
              /\ totalFilesCount' = totalFilesCount
              /\ totalDirectoriesCount' = totalDirectoriesCount
              /\ totalCapacity' = totalCapacity
              /\ fileTypes' = fileTypes
              /\ users' = users ]_vars

\* an entry that is not a directory: a file or a symbolic link
NonDirEntries == { e \in Entries : e.info \in {"file", "symlink"} }

\* C11: a file whose owner uid has no user name is aggregated under the decimal
\* string of that uid, in users and inside its extension group
C11_UnmappedOwnerKeyedByUid ==
    [][ \A e \in NonDirEntries :
          (~LookupId(e.uid).ok /\ CallbackOn(e) /\ users' # users) =>
              /\ \E i \in DOMAIN users' : users'[i].name = ToString(e.uid)
              /\ \E i \in DOMAIN fileTypes' : \E j \in DOMAIN fileTypes'[i].users :
                    fileTypes'[i].users[j].name = ToString(e.uid) ]_vars

\* C14: an extension-less file that cannot be opened is folded into both
\* groupings under the unknown-format label, its size added to totalCapacity
C14_UnopenableFolded ==
    [][ \A e \in NonDirEntries :
          (e.ext = "" /\ ~e.canOpen /\ CallbackOn(e)) =>
              /\ totalCapacity' = totalCapacity + e.size
              /\ \E i \in DOMAIN fileTypes' :
                    /\ fileTypes'[i].extension = "no_extension_unknown_format"
                    /\ fileTypes'[i].size =
                         e.size + SumSize(SelectSeq(fileTypes, IsUnknownFormat), 1)
              /\ SumCount(users', 1) = SumCount(users, 1) + 1 ]_vars

\* C15: a callback invoked with a walk error changes no counter and no group,
\* and the process does not abort
C15_WalkErrorSkipped ==
    [][ \A e \in Entries :
          (e.err /\ CallbackOn(e)) =>
              /\ pc' = "walk"
              /\ UNCHANGED <<totalFilesCount, totalCapacity, totalDirectoriesCount,
                             fileTypes, users>> ]_vars

\* C16: a path for which processFile fails or finds the entry vanished does not
\* increment totalFileCount
C16_FailedPathNotCounted ==
    [][ \A w \in Workers :
          (wfailed[w] /\ WorkerCountWrite(w)) =>
              totalFileCount' = totalFileCount ]_vars

\* C17: when the target directory does not exist no callback runs and no
\* summary is printed
C17_MissingDirectoryExits ==
    ~dirExists => /\ nVisited = 0 /\ pc \notin {"report", "done"}
                  /\ nWalked = 0 /\ spawned = 0 /\ mainPc \notin {"report", "done"}

\* C18: the callback on a directory increments totalDirectoriesCount exactly
\* once, also when the listing of the directory failed; the callback on any
\* other entry increments totalFilesCount at most once
C18_EachEntryCountedOnce ==
    [][ \A e \in Entries :
          CallbackOn(e) =>
              /\ IsDir(e) => totalDirectoriesCount' = totalDirectoriesCount + 1
              /\ ~IsDir(e) => /\ totalDirectoriesCount' = totalDirectoriesCount
                              /\ totalFilesCount' \in
                                   {totalFilesCount, totalFilesCount + 1} ]_vars

\* lines the sampling loop examines: the first min(10, n)
Examined(lines) == IF Len(lines) < 10 THEN Len(lines) ELSE 10

\* some character of the examined lines lies outside [32,126]
SomeExaminedOutside(lines) ==
    \E i \in 1..Examined(lines) : \E k \in 1..Len(lines[i]) :
        lines[i][k] < 32 \/ lines[i][k] > 126

\* C12: an opened extension-less file is labelled binary if and only if some
\* character of its first min(10, n) lines lies outside [32,126], and text
\* otherwise
C12_BinaryIffSomeCharOutside ==
    result # <<>> =>
        result[1] = IF SomeExaminedOutside(arg) THEN "no_extension_binary"
                    ELSE "no_extension_text"

\* C13 as stated: the label is binary exactly when the last examined line holds
\* a character outside [32,126]
C13_LastLineDecides ==
    (result # <<>> /\ Examined(arg) >= 1) =>
        (result[1] = "no_extension_binary"
            <=> LineNonPrintable(arg[Examined(arg)]))

\* C13 amended: the label is binary exactly when some examined line holds a
\* character outside [32,126]; a later line of printable characters does not
\* turn it back
C13_AnyLineDecides ==
    result # <<>> =>
        (result[1] = "no_extension_binary" <=> SomeExaminedOutside(arg))

\* a file labelled binary whose last examined line is printable throughout
C13_Witness ==
    /\ result # <<>> /\ Examined(arg) >= 2
    /\ result[1] = "no_extension_binary"
    /\ ~LineNonPrintable(arg[Examined(arg)])

\* a list of groups as a mapping: the number of groups and, per key, the totals
\* and the nested entries as a set
Elements(list) == { list[i] : i \in DOMAIN list }
ExtensionMapping(fts) ==
    [n |-> Len(fts),
     groups |-> { [extension |-> g.extension, size |-> g.size, count |-> g.count,
                   users |-> Elements(g.users), n |-> Len(g.users)] :
                      g \in Elements(fts) }]
UserMapping(uss) ==
    [n |-> Len(uss),
     groups |-> { [name |-> g.name, size |-> g.size, count |-> g.count,
                   filetypes |-> Elements(g.filetypes), n |-> Len(g.filetypes)] :
                      g \in Elements(uss) }]

\* C19: two orderings of the same observations give groupings that are equal as
\* mappings
C19_OrderIndependent ==
    result # <<>> =>
        /\ ExtensionMapping(result[1].fileTypes) = ExtensionMapping(result[2].fileTypes)
        /\ UserMapping(result[1].users) = UserMapping(result[2].users)

\* two orderings whose lists differ in discovery order, each with two groups
C19_Witness ==
    /\ result # <<>>
    /\ result[1].fileTypes # result[2].fileTypes
    /\ result[1].users # result[2].users
    /\ Len(result[1].fileTypes) = 2 /\ Len(result[1].users) = 2

\* b holds the elements of a, each as many times
IsPermutation(a, b) ==
    /\ Len(a) = Len(b)
    /\ \A g \in Elements(a) \cup Elements(b) :
          Cardinality({ i \in DOMAIN a : a[i] = g })
              = Cardinality({ i \in DOMAIN b : b[i] = g })

\* size is non-increasing along the list
NonIncreasing(list) ==
    \A i, j \in DOMAIN list : i < j => list[i].size >= list[j].size

\* C20: the sort (the step from pc = "sort" to pc = "stop") leaves fileTypes and
\* users non-increasing in size, each a permutation of the list built during
\* the walk
C20_SortedPermutation ==
    [][ (pc = "sort" /\ pc' = "stop") =>
            /\ NonIncreasing(fileTypes') /\ IsPermutation(fileTypes, fileTypes')
            /\ NonIncreasing(users') /\ IsPermutation(users, users') ]_vars

\* sorted lists of two groups of different sizes
C20_Witness ==
    /\ pc = "stop"
    /\ Len(fileTypes) = 2 /\ fileTypes[1].size > fileTypes[2].size
    /\ Len(users) = 2 /\ users[1].size > users[2].size

\* the rendering of 0
ZeroBytes == PlainBytes(FALSE, <<>>)

\* C21: the average of a size over a file count of 0 is rendered as 0, by
\* averageFileSize and by the worker-pool report
C21_AverageOfNoFilesIsZero ==
    (result # <<>> /\ arg.fn \in {"averageFileSize", "avgFileSize"} /\ arg.count = 0)
        => result[1] = ZeroBytes

\* the rendering by rule: the plain byte count below 1024, otherwise
\* value / 1024^e with one decimal and suffix number e, for the largest e with
\* 1024^e <= value (one less than the number of base-1024 digits)
RenderedByRule(d) ==
    IF Len(d) <= 1 THEN PlainBytes(FALSE, d)
    ELSE Scaled(Tenths(d, Len(d) - 1), Suffixes[Len(d) - 1])

\* C22: humanReadableSize and formatSize render every size by the rule
C22_RenderedByRule ==
    /\ (result # <<>> /\ arg.fn = "formatSize") => result[1] = RenderedByRule(arg.size)
    /\ (result # <<>> /\ arg.fn = "humanReadableSize" /\ ~arg.size.neg)
           => result[1] = RenderedByRule(arg.size.digits)

\* the worker count for a requested count w: max(1, min(w, 2 * NumCPU))
ClampedCount(w) ==
    LET least == IF w < 2 * NumCPU THEN w ELSE 2 * NumCPU
    IN  IF least > 1 THEN least ELSE 1

\* the workers have all been started
WorkersStarted == mainPc \in {"wait", "stop", "report", "done"}

ExitedOnSignal == result # <<>> /\ result[1] = "exited"

\* the summary report has been printed
ReportPrinted == pc = "done"

\* C24 as stated: a signal delivered during the scan leads to the message and
\* the exit of the signal goroutine; after that exit no report is printed
C24_SignalLeadsToExit ==
    /\ (arg # <<>>) ~> ExitedOnSignal
    /\ [][ExitedOnSignal => pc' = pc]_vars

\* C24 amended: a signal delivered during the scan leads to the end of the
\* process, by the exit of the signal goroutine or by main coming to its end
\* first; the signal goroutine exits only after it has taken the signal and
\* printed its message, and after its exit main takes no step: no report is
\* printed
C24_SignalLeadsToEnd ==
    /\ (arg # <<>>) ~> ~ProcessRunning
    /\ [][ExitedOnSignal => UNCHANGED seqVars]_vars
    /\ [][(~ExitedOnSignal /\ ExitedOnSignal') =>
              (result[1] = "received" /\ result'[2] = result[2])]_vars

\* the signal goroutine ended the process in the middle of the walk
C24_Witness == ExitedOnSignal /\ pc = "walk" /\ nVisited >= 1 /\ ~ReportPrinted

\* the directories the skip rule is meant for, and the files beneath them
ExcludedDirs  == {"/proc", "/run"}
BeneathExcluded == {"/proc/1", "/proc/1/stat", "/run/lock"}

\* C25: the callback on an excluded directory does not increment
\* totalDirectories and lets Walk visit nothing beneath it; no path beneath an
\* excluded directory is sent on files
C25_ExcludedContributesNothing ==
    /\ [](\A i \in DOMAIN result : result[i].file \notin BeneathExcluded)
    /\ [][ (arg # <<>> /\ Head(arg).file \in ExcludedDirs /\ nWalked' = nWalked + 1)
               => (totalDirectories' = totalDirectories /\ arg' = Tail(arg)) ]_vars

\* a group of files the classifier opened and read
IsClassified(r) == r.extension \in {"no_extension_text", "no_extension_binary"}

Markers == {"no_extension_unknown_format", "no_extension_binary", "no_extension_text"}

\* the extension labels of all groups: by extension, and per user by extension
GroupLabels ==
    { fileTypes[i].extension : i \in DOMAIN fileTypes }
        \cup UNION { { users[i].filetypes[j].extension : j \in DOMAIN users[i].filetypes }
                     : i \in DOMAIN users }

\* C27: the label of every group is a non-empty extension or one of the three
\* markers; no group has the empty label
C27_NoEmptyLabel == GroupLabels \subseteq ((Exts \ {""}) \cup Markers)

\* no two elements of the list have the same key
UniqueExtension(list) ==
    \A i, j \in DOMAIN list : list[i].extension = list[j].extension => i = j
UniqueName(list) ==
    \A i, j \in DOMAIN list : list[i].name = list[j].name => i = j

\* the groups of g are one per key, top level and nested, and their keys are
\* the keys of the observations obs folded into them
GroupedByKey(g, obs) ==
    /\ UniqueExtension(g.fileTypes)
    /\ UniqueName(g.users)
    /\ { r.extension : r \in Elements(g.fileTypes) } = { obs[n].extension : n \in DOMAIN obs }
    /\ { u.name : u \in Elements(g.users) } = { obs[n].name : n \in DOMAIN obs }
    /\ \A r \in Elements(g.fileTypes) :
          /\ UniqueName(r.users)
          /\ { u.name : u \in Elements(r.users) }
                = { obs[n].name : n \in { m \in DOMAIN obs : obs[m].extension = r.extension } }
    /\ \A u \in Elements(g.users) :
          /\ UniqueExtension(u.filetypes)
          /\ { r.extension : r \in Elements(u.filetypes) }
                = { obs[n].extension : n \in { m \in DOMAIN obs : obs[m].name = u.name } }

\* C28: the lists hold one group per key, at the top level and nested, and a
\* group exists exactly for the keys of the observations folded
C28_OneGroupPerKeyFolded ==
    result # <<>> =>
        /\ GroupedByKey(result[1], arg.obs)
        /\ GroupedByKey(result[2], Reordered(arg.obs, arg.p))

\* three observations, two of them with the same extension and two with the
\* same owner, folded into two groups by extension and two by owner
C28_Witness ==
    /\ result # <<>>
    /\ Len(arg.obs) = 3
    /\ Len(result[1].fileTypes) = 2 /\ Len(result[1].users) = 2
    /\ \E r \in Elements(result[1].fileTypes) : Len(r.users) = 2

\* the summary has been written: main returned or exited
ReportEnded == result.pc \in {"exit", "end"}

\* a line of that kind has been written
Written(kind) == \E n \in DOMAIN result.out : result.out[n].line = kind

\* C29: the totals are written in every mode; -f alone gives the listing by
\* file type and not the one by user, -u alone the listing by user and not the
\* one by file type, neither flag both; and whatever the combination, the
\* listing of each flag that is set is written
C29_FlagsSelectListings ==
    ReportEnded =>
        /\ Written("totals")
        /\ (arg.fileTypesOnly /\ ~arg.userInfoOnly)
              => (Written("by file type") /\ ~Written("by user"))
        /\ (arg.userInfoOnly /\ ~arg.fileTypesOnly)
              => (Written("by user") /\ ~Written("by file type"))
        /\ (~arg.fileTypesOnly /\ ~arg.userInfoOnly)
              => (Written("by user") /\ Written("by file type"))
        /\ arg.fileTypesOnly => Written("by file type")
        /\ arg.userInfoOnly => Written("by user")

\* C30: the run with -v and the run without it, over the same entries with the
\* same outcomes, have the same counters and the same groups
C30_VerboseChangesNoResult ==
    /\ result[1].totalFilesCount = result[2].totalFilesCount
    /\ result[1].totalCapacity = result[2].totalCapacity
    /\ result[1].totalDirectoriesCount = result[2].totalDirectoriesCount
    /\ ExtensionMapping(result[1].fileTypes) = ExtensionMapping(result[2].fileTypes)
    /\ UserMapping(result[1].users) = UserMapping(result[2].users)

\* C31: at every callback boundary the counts of the extension groups and of
\* the user groups have the same sum, and so have their sizes; a callback
\* changes both lists or neither
C31_FoldedIntoBothOrNeither ==
    /\ [](/\ SumCount(fileTypes, 1) = SumCount(users, 1)
          /\ SumSize(fileTypes, 1) = SumSize(users, 1))
    /\ [][ (pc = "walk" /\ pc' = "walk")
              => ((fileTypes' # fileTypes) <=> (users' # users)) ]_vars

\* one callback has returned early and two others have folded their file
C31_Witness ==
    /\ SumCount(fileTypes, 1) = 2
    /\ SumCount(users, 1) = 2
    /\ totalFilesCount = 3

\* the nested list adds up to the size and the count of its group
NestedAddsUp(group, nested) ==
    /\ SumSize(nested, 1) = group.size
    /\ SumCount(nested, 1) = group.count

\* C32: at every callback boundary the per-user entries of every extension
\* group add up to the group's size and count, and the per-extension entries of
\* every user group add up to that group's size and count
C32_NestedAddsUp ==
    /\ \A i \in DOMAIN fileTypes : NestedAddsUp(fileTypes[i], fileTypes[i].users)
    /\ \A i \in DOMAIN users : NestedAddsUp(users[i], users[i].filetypes)

\* an extension group of three files of two users, and a user group of two
\* files with two extensions
C32_Witness ==
    /\ \E i \in DOMAIN fileTypes :
          fileTypes[i].count = 3 /\ Len(fileTypes[i].users) = 2
    /\ \E i \in DOMAIN users :
          users[i].count = 2 /\ Len(users[i].filetypes) = 1

\* the lines written with a call of averageFileSize
AverageLines ==
    { n \in DOMAIN result.out :
        result.out[n].line \in {"user", "user file type", "file type", "file type user"} }

\* every element of the list has count >= 1
CountsPositive(list) == \A i \in DOMAIN list : list[i].count >= 1

\* C33: every group and every nested entry has count >= 1, and every call of
\* averageFileSize in the summary has fileCount >= 1
C33_CountAtLeastOne ==
    /\ CountsPositive(arg.fileTypes)
    /\ CountsPositive(arg.users)
    /\ \A i \in DOMAIN arg.fileTypes : CountsPositive(arg.fileTypes[i].users)
    /\ \A i \in DOMAIN arg.users : CountsPositive(arg.users[i].filetypes)
    /\ \A n \in AverageLines : result.out[n].fileCount >= 1

\* both listings written with their nested lines, one group holding two files
C33_Witness ==
    /\ result.pc = "end"
    /\ arg.verboseEnabled
    /\ \E n \in AverageLines :
          result.out[n].line = "user" /\ result.out[n].fileCount = 2
    /\ \E n \in AverageLines : result.out[n].line = "file type user"
    /\ \E n \in AverageLines : result.out[n].line = "user file type"
    /\ \E n \in AverageLines : result.out[n].line = "file type"

\* the walker is blocked in `files <- path`
Sending == walkPc = "send"

\* the workers that take a path in this step
Receivers(before, after) ==
    { w \in DOMAIN before : before[w] = "recv" /\ after[w] = "countRead" }

\* C34: every path sent on `files` is received by exactly one worker and
\* handed to processFile once: the paths received are the paths sent, less the
\* one the walker is still sending; a receive takes the path being sent and is
\* the step of one worker; a path being sent is eventually received; and when
\* main is past wg.Wait() every path sent has been received
C34_EachPathReceivedOnce ==
    /\ [](nSent = nRecv + (IF Sending THEN 1 ELSE 0))
    /\ [](Sending <=> pending # NoPath)
    /\ [][ nRecv' # nRecv =>
              /\ nRecv' = nRecv + 1
              /\ Sending /\ ~Sending'
              /\ pending' = NoPath
              /\ Cardinality(Receivers(wpc, wpc')) = 1
              /\ \A w \in Workers : w \notin Receivers(wpc, wpc') => wpc'[w] = wpc[w] ]_vars
    /\ [][ nSent' # nSent => (nSent' = nSent + 1 /\ ~Sending /\ Sending') ]_vars
    /\ Sending ~> ~Sending
    /\ [](PastWait => (nSent = nRecv /\ walkPc = "done"))

\* two paths sent, each received by another worker, both workers still busy
\* with their path
C34_Witness ==
    /\ nSent = 2 /\ nRecv = 2
    /\ \E v, w \in Workers :
          /\ v # w
          /\ wpc[v] \in {"countRead", "countWrite", "capRead", "capWrite"}
          /\ wpc[w] \in {"countRead", "countWrite", "capRead", "capWrite"}

\* C35: once the walk has completed, no step changes the three totals; the
\* sort leaves each top-level list a rearrangement of its elements, each element
\* with its key, size, count and nested list as the walk left them, and the
\* steps after the sort leave both lists as they are
C35_ReportChangesNoAggregate ==
    [][ WalkCompleted =>
            /\ totalFilesCount' = totalFilesCount
            /\ totalCapacity' = totalCapacity
            /\ totalDirectoriesCount' = totalDirectoriesCount
            /\ IF pc = "sort"
               THEN IsPermutation(fileTypes, fileTypes') /\ IsPermutation(users, users')
               ELSE fileTypes' = fileTypes /\ users' = users ]_vars

\* the summary has been written over two extension groups of different sizes,
\* one of them with two nested entries, and two user groups
C35_Witness ==
    /\ pc = "done"
    /\ Len(fileTypes) = 2 /\ fileTypes[1].size > fileTypes[2].size
    /\ \E i \in DOMAIN fileTypes : Len(fileTypes[i].users) = 2
    /\ Len(users) = 2

====
